---- MODULE Spec2Model ----
(***************************************************************************)
(* A model of cmon's conversation session (Chat, src/src/chat.rs): the     *)
(* token-budgeted message history, one send_message turn with its rollback *)
(* on failure, and the tool dispatcher handle_tool_use.                    *)
(*                                                                         *)
(* Strings are modelled as sequences of words; the gpt2 tokenizer (an      *)
(* external collaborator, chat.rs:96) is modelled as yielding one token    *)
(* per word, so the token count of a string is its length in words.        *)
(***************************************************************************)
EXTENDS Integers, Sequences, FiniteSets, TLC

VARIABLES
    messages,    \* Chat.messages (chat.rs:46)
    max_tokens,  \* Chat.max_tokens (chat.rs:49), fixed at construction
    last,        \* observation of the most recent call: arguments, result, effects
    retry,       \* observation: the current streak of failed sends of one message
    files        \* the project directory's files, by relative path

vars == <<messages, max_tokens, last, retry, files>>

----------------------------------------------------------------------------
(* Bounds of the model *)

\* longest text of a message, in words
MaxWords == 1
\* a send is issued only while the history holds at most MaxHist - 2 messages
MaxHist == 4
\* the largest configured token budget
MaxBudget == 3
\* the longest streak of failed attempts of one message that is followed
MaxRetries == 2

----------------------------------------------------------------------------
(* Data model *)

\* Role (used by chat.rs:119 and matched exhaustively at deepseek.rs:258-263)
Roles == {"User", "Assistant", "System", "Developer"}

RECURSIVE WordSeqs(_)
WordSeqs(n) == IF n = 0 THEN {<<>>}
               ELSE WordSeqs(n - 1) \cup {Append(s, "a") : s \in {t \in WordSeqs(n - 1) : Len(t) = n - 1}}

\* the texts the caller and the model may produce
Texts == WordSeqs(MaxWords)

\* ContentItem::Text / ToolUse / ToolResult (inference.rs:22-38)
Text(t) == [type |-> "text", text |-> t]
ToolUse(i, n, inp) == [type |-> "tool_use", id |-> i, name |-> n, input |-> inp]
ToolResult(i, c) == [type |-> "tool_result", tool_use_id |-> i, content |-> c]

\* Message (inference.rs:41-44)
Message(r, c) == [role |-> r, content |-> c]

\* Result values
Ok(v) == [ok |-> TRUE, value |-> v]
Err(k, d) == [ok |-> FALSE, kind |-> k, detail |-> d]

----------------------------------------------------------------------------
(* Token estimation *)

\* Vec<String>::join(" ") (chat.rs:87-88), on strings held as words
RECURSIVE JoinWords(_)
JoinWords(ss) == IF ss = <<>> THEN <<>> ELSE Head(ss) \o JoinWords(Tail(ss))

\* the whitespace-separated words of the strings a tool input holds
StringWords(v) ==
    CASE v = "serve; ok" -> <<"serve;", "ok">>
      [] v = "ok; serve" -> <<"ok;", "serve">>
      [] v = "serve && ok" -> <<"serve", "&&", "ok">>
      [] OTHER -> <<v>>

AddPrefix(ws, p) == <<p \o Head(ws)>> \o Tail(ws)
AddSuffix(ws, q) == SubSeq(ws, 1, Len(ws) - 1) \o <<ws[Len(ws)] \o q>>

\* the Debug rendering of a serde_json Value (chat.rs:84), as words; the
\* number of the model is rendered as 1
DebugValue(v) ==
    CASE v.json = "string" -> AddSuffix(AddPrefix(StringWords(v.s), "String(\""), "\")")
      [] v.json = "null" -> <<"Null">>
      [] v.json = "number" -> <<"Number(1)">>

\* the keys of a serde_json Map, which iterates in key order
SortedFields == <<"cmd", "content", "path", "statement">>

\* the entries of the Debug rendering of an object, the first opening the
\* brace and the last closing it
RECURSIVE DebugEntries(_, _, _)
DebugEntries(inp, keys, first) ==
    IF keys = <<>> THEN <<>>
    ELSE <<(IF first THEN "{" ELSE "") \o "\"" \o Head(keys) \o "\":">>
         \o AddSuffix(DebugValue(inp[Head(keys)]), IF Len(keys) = 1 THEN "}" ELSE ",")
         \o DebugEntries(inp, Tail(keys), FALSE)

\* format!("{:?}", input) of a tool input (chat.rs:84), as words
DebugInput(inp) ==
    LET Present(f) == inp[f].json # "absent"
        keys == SelectSeq(SortedFields, Present)
    IN  IF keys = <<>> THEN <<"Object", "{}">>
        ELSE <<"Object">> \o DebugEntries(inp, keys, TRUE)

\* Chat::content_to_string (chat.rs:80-89)
ItemToString(item) ==
    CASE item.type = "text" -> item.text
      [] item.type = "tool_use" -> <<"tool", item.name, "with", "input:">> \o DebugInput(item.input)
      [] item.type = "tool_result" -> <<"tool", "result:">> \o item.content

content_to_string(content) ==
    JoinWords([i \in 1..Len(content) |-> ItemToString(content[i])])

\* tokenizer.encode(text, false).len() (chat.rs:96-97): one token per word
EncodeLen(text) == Len(text)

\* the closure of calculate_total_tokens (chat.rs:93-98): the role's Debug
\* label, a space, and the flattened content
MessageTokens(msg) == EncodeLen(<<msg.role>> \o content_to_string(msg.content))

\* Chat::calculate_total_tokens (chat.rs:91-100)
RECURSIVE calculate_total_tokens(_)
calculate_total_tokens(msgs) ==
    IF msgs = <<>> THEN 0
    ELSE MessageTokens(Head(msgs)) + calculate_total_tokens(Tail(msgs))

----------------------------------------------------------------------------
(* Trimming *)

\* mutant: evicts the newest message instead of the oldest
RemoveNewest(msgs) == SubSeq(msgs, 1, Len(msgs) - 1)

\* one iteration of the loop body (chat.rs:104): Vec::remove(0)
RemoveOldest(msgs) == Tail(msgs)

\* the loop of trim_messages_to_token_limit with its iteration count
\* (chat.rs:103-105)
RECURSIVE TrimLoop(_, _, _)
TrimLoop(msgs, max, n) ==
    IF calculate_total_tokens(msgs) > max /\ msgs # <<>>
    THEN TrimLoop(RemoveOldest(msgs), max, n + 1)
    ELSE [messages |-> msgs, removals |-> n]

\* mutant: an `if` in place of the `while`: at most one eviction
TrimOnce(msgs, max) ==
    IF calculate_total_tokens(msgs) > max /\ msgs # <<>>
    THEN [messages |-> RemoveOldest(msgs), removals |-> 1]
    ELSE [messages |-> msgs, removals |-> 0]

\* Chat::trim_messages_to_token_limit (chat.rs:102-106)
trim_messages_to_token_limit(msgs, max) == TrimLoop(msgs, max, 0)

----------------------------------------------------------------------------
(* The tool dispatcher *)

\* the regular files of the project the tools are pointed at
FilePaths == {"a.txt"}
\* a path of the project that is a directory: it is neither read nor written
\* as a file
DirPaths == {"src"}
FileContents == {"x", "y"}
Absent == "absent"

\* the simple commands the model passes: one that exits 0, one that exits 1,
\* one that runs until it is killed, and one that exits 0 after it has left
\* a child behind that keeps the inherited stdout and stderr open for good
SimpleCmds == {"ok", "fail", "serve", "daemon"}

\* the commands the model passes: the simple ones, and lists of them
Cmds == SimpleCmds \cup {"serve; ok", "ok; serve", "serve && ok"}

\* the lists of a command line that `;` separates, in order
SplitSeq(c) ==
    CASE c = "serve; ok" -> <<"serve", "ok">>
      [] c = "ok; serve" -> <<"ok", "serve">>
      [] OTHER -> <<c>>

\* the simple commands of a list that `&&` joins, in order
SplitAnd(l) ==
    CASE l = "serve && ok" -> <<"serve", "ok">>
      [] OTHER -> <<l>>

\* a simple command left to run: whether it ends, its exit code, what it
\* prints, and whether it leaves a process holding the output pipes
RunSimple(c) ==
    [ends |-> c # "serve",
     exit |-> IF c = "fail" THEN 1 ELSE 0,
     out |-> IF c = "ok" THEN <<"done">> ELSE <<>>,
     err |-> IF c = "fail" THEN <<"error">> ELSE <<>>,
     holder |-> c = "daemon"]

Ran == [ends |-> TRUE, exit |-> 0, out |-> <<>>, err |-> <<>>, holder |-> FALSE]

\* b run after a has ended
Then(a, b) ==
    [ends |-> b.ends, exit |-> b.exit, out |-> a.out \o b.out,
     err |-> a.err \o b.err, holder |-> a.holder \/ b.holder]

\* bash running a list a && b && ...: the next one runs if the one before
\* ended with exit code 0
RECURSIVE RunAnd(_, _)
RunAnd(cs, acc) ==
    IF cs = <<>> \/ ~acc.ends \/ acc.exit # 0 THEN acc
    ELSE RunAnd(Tail(cs), Then(acc, RunSimple(Head(cs))))

\* bash running lists a; b; ...: the next one runs when the one before ended
RECURSIVE RunSeq(_, _)
RunSeq(ls, acc) ==
    IF ls = <<>> \/ ~acc.ends THEN acc
    ELSE RunSeq(Tail(ls), Then(acc, RunAnd(SplitAnd(Head(ls)), Ran)))

\* bash -c <c>, left to run
RunScript(c) == RunSeq(SplitSeq(c), Ran)

TerminatesAlone(c) == RunScript(c).ends
Stdout(c) == RunScript(c).out
Stderr(c) == RunScript(c).err
ExitCode(c) == RunScript(c).exit

\* serde_json::Value of a tool input's field, or no such field
JAbsent == [json |-> "absent"]
JNull == [json |-> "null"]
JNumber == [json |-> "number"]
JString(v) == [json |-> "string", s |-> v]

Fields == {"path", "content", "cmd", "statement"}
ToolNames == {"write_file", "read_file", "compile_check", "execute"}

\* mutant: a field that is absent or no string is read as a default string
extract_string_field_lenient(input, field_name) ==
    IF input[field_name].json = "string" THEN Ok(input[field_name].s)
    ELSE Ok("a.txt")

\* Chat::extract_string_field (chat.rs:108-116)
extract_string_field(input, field_name) ==
    IF input[field_name].json = "absent"
    THEN Err("MissingField", field_name)
    ELSE IF input[field_name].json # "string"
         THEN Err("WrongFieldType", field_name)
         ELSE Ok(input[field_name].s)

Done(ret, fs, effects) == [ret |-> ret, files |-> fs, effects |-> effects]

\* a value that never comes back: the handler panicked, or is still waiting
Panic(d) == [ok |-> FALSE, kind |-> "Panic", detail |-> d]
NoReturn(d) == [ok |-> FALSE, kind |-> "NoReturn", detail |-> d]
Returned(r) == IF r.ok THEN TRUE ELSE r.kind \notin {"Panic", "NoReturn"}

\* the "write_file" arm (chat.rs:167-175)
WriteFile(fs, input) ==
    LET content == extract_string_field(input, "content")
        file_path == extract_string_field(input, "path")
    IN  IF ~content.ok THEN Done(content, fs, <<>>)
        ELSE IF ~file_path.ok THEN Done(file_path, fs, <<>>)
        ELSE IF file_path.value \in FilePaths
             THEN Done(Ok(<<"Successfully", "wrote", "content", "to", "file", file_path.value>>),
                       [fs EXCEPT ![file_path.value] = content.value], <<"fs_write">>)
             ELSE Done(Ok(<<"Error", "writing", "to", "file", file_path.value, "IsADirectory">>),
                       fs, <<"fs_write">>)

\* the "read_file" arm (chat.rs:176-183)
ReadFile(fs, input) ==
    LET file_path == extract_string_field(input, "path") IN
    IF ~file_path.ok THEN Done(file_path, fs, <<>>)
    ELSE IF file_path.value \in FilePaths
         THEN IF fs[file_path.value] # Absent
              THEN Done(Ok(<<fs[file_path.value]>>), fs, <<"fs_read">>)
              ELSE Done(Ok(<<"Error", "reading", "file", file_path.value, "NotFound">>),
                        fs, <<"fs_read">>)
         ELSE Done(Ok(<<"Error", "reading", "file", file_path.value, "IsADirectory">>),
                   fs, <<"fs_read">>)

\* format!("Stdout:\n{}\nStderr:\n{}", stdout, stderr) (chat.rs:195-198, 211-214)
OutputText(c) == <<"Stdout:">> \o Stdout(c) \o <<"Stderr:">> \o Stderr(c)

\* Command::output (chat.rs:190, 206) comes back when bash has exited and
\* no process holds the write end of the stdout and stderr pipes any more

\* bash -c "<cmd> & sleep 5; kill $!" (chat.rs:188): the lists of cmd before
\* the last run in the foreground, one after the other; only the last list
\* is put in the background, and `kill $!` signals that one process: the
\* command itself if the list is a simple command, else the subshell that
\* runs the list, whose running command lives on with the pipes
CompileCheckReturns(cmd) ==
    LET ls == SplitSeq(cmd)
        fg == RunSeq(SubSeq(ls, 1, Len(ls) - 1), Ran)
        job == SplitAnd(ls[Len(ls)])
        bg == RunAnd(job, Ran)
    IN  /\ fg.ends /\ ~fg.holder
        /\ ~bg.holder
        /\ (bg.ends \/ Len(job) = 1)

\* the text of a compile_check that came back (chat.rs:193-198): what the
\* commands printed, and bash's complaint when the job had already ended
\* by the time of the kill
CompileCheckText(cmd) ==
    OutputText(cmd) \o (IF TerminatesAlone(cmd) THEN <<"kill: No such process">> ELSE <<>>)

\* the "compile_check" arm (chat.rs:184-199)
CompileCheck(fs, input, spawn_ok) ==
    LET check_cmd == extract_string_field(input, "cmd") IN
    IF ~check_cmd.ok THEN Done(check_cmd, fs, <<>>)
    ELSE IF ~spawn_ok THEN Done(Panic("Failed to execute command"), fs, <<"spawn">>)
    ELSE IF CompileCheckReturns(check_cmd.value)
         THEN Done(Ok(CompileCheckText(check_cmd.value)), fs, <<"spawn">>)
         ELSE Done(NoReturn("waiting for the pipes to close"), fs, <<"spawn">>)

\* the "execute" arm (chat.rs:200-215): bash -c <statement>, waited for
Execute(fs, input, spawn_ok) ==
    LET statement == extract_string_field(input, "statement") IN
    IF ~statement.ok THEN Done(statement, fs, <<>>)
    ELSE IF ~spawn_ok THEN Done(Panic("Failed to execute command"), fs, <<"spawn">>)
    ELSE IF TerminatesAlone(statement.value) /\ ~RunScript(statement.value).holder
         THEN Done(Ok(OutputText(statement.value)), fs, <<"spawn">>)
         ELSE Done(NoReturn("waiting for the statement"), fs, <<"spawn">>)

\* mutant: an unknown tool name is an error
UnknownToolIsError(fs, name) == Done(Err("UnknownTool", name), fs, <<>>)

\* the default arm (chat.rs:216)
UnknownTool(fs, name) == Done(Ok(<<"Unknown", "tool:", name>>), fs, <<>>)

\* the match on the tool's name (chat.rs:166-217)
Dispatch(fs, name, input, spawn_ok) ==
    CASE name = "write_file" -> WriteFile(fs, input)
      [] name = "read_file" -> ReadFile(fs, input)
      [] name = "compile_check" -> CompileCheck(fs, input, spawn_ok)
      [] name = "execute" -> Execute(fs, input, spawn_ok)
      [] OTHER -> UnknownTool(fs, name)

\* the outcomes of GitTree::get_git_root() (chat.rs:164)
GitRootOutcomes == {Ok(<<"root">>), Err("GitRootError", "get_git_root")}

\* Chat::handle_tool_use (chat.rs:161-226)
handle_tool_use(fs, content_item, root, spawn_ok) ==
    IF content_item.type = "tool_use"
    THEN IF root.ok
         THEN LET d == Dispatch(fs, content_item.name, content_item.input, spawn_ok) IN
              Done(d.ret, d.files, <<"get_git_root">> \o d.effects)
         ELSE Done(Err("GitRootError", "Error getting git root"), fs, <<"get_git_root">>)
    ELSE Done(Err("NotToolUse", "Not a tool use content item"), fs, <<>>)

\* the values a tool input may hold for a field: none, one of a wrong type,
\* or a string
FieldValues(f) ==
    CASE f = "path" -> {JAbsent, JNull} \cup {JString(v) : v \in FilePaths \cup DirPaths}
      [] f = "content" -> {JAbsent, JNumber} \cup {JString(v) : v \in FileContents}
      [] OTHER -> {JAbsent, JNull} \cup {JString(v) : v \in Cmds}

NoFields == [f \in Fields |-> JAbsent]

\* the tool inputs the model may emit: the fields of one tool's schema, each
\* absent, of a wrong type or a string (whatever the tool named with them)
ToolInputs ==
    {[NoFields EXCEPT !["path"] = pv, !["content"] = cv] :
        pv \in FieldValues("path"), cv \in FieldValues("content")}
    \cup {[NoFields EXCEPT !["cmd"] = v] : v \in FieldValues("cmd")}
    \cup {[NoFields EXCEPT !["statement"] = v] : v \in FieldValues("statement")}

\* the content items a caller may hand to handle_tool_use
ToolItems == {ToolUse("t1", n, i) : n \in ToolNames \cup {"frobnicate"}, i \in ToolInputs}
             \cup {Text(<<>>), ToolResult("t1", <<>>)}

----------------------------------------------------------------------------
(* One turn *)

\* the outcomes of GitTree::get_tree() (chat.rs:120)
TreeOutcomes == {Ok(<<"tree">>), Err("TreeError", "get_tree")}

\* InferenceError variants the backends return (deepseek.rs:236, 285, 293,
\* 297, 312)
InferenceErrors == {"MissingApiKey", "NetworkError", "ApiError",
                    "InvalidResponse", "SerializationError"}

\* the contents a backend answers with
ResponseContents == {<<>>} \cup {<<Text(t)>> : t \in Texts}

\* the future of send_message dropped by its caller while it is suspended at
\* the .await of query_model (chat.rs:142)
Dropped == [ok |-> FALSE, kind |-> "Dropped", detail |-> "backend"]

\* the outcomes of the provider's query_model, before the selector wraps
\* them, and the future abandoned before an outcome
QueryOutcomes == {Ok(c) : c \in ResponseContents}
                 \cup {Err(k, "backend") : k \in InferenceErrors}
                 \cup {Dropped}

\* InferenceProvider::query_model (chat.rs:27-43): the bound backend's result,
\* its error turned into an anyhow error with the provider's prefix
query_model(outcome) ==
    IF outcome.ok THEN outcome
    ELSE Err("InferenceError", outcome.kind)

\* what a call of send_message leaves to be observed
\* the streak of failed attempts a call continues: none
NoRetry == [fails |-> 0, H |-> <<>>, M |-> <<>>]

Observed(op, pre, arg, msgs, ret, trimmed, removals, sent, reply, effects) ==
    [op |-> op, pre |-> pre, arg |-> arg, messages |-> msgs, ret |-> ret,
     trimmed |-> trimmed, removals |-> removals, sent |-> sent,
     reply |-> reply, effects |-> effects, streak |-> NoRetry, env |-> <<>>]

\* mutant: the reply is returned but not recorded in the history
OnQueryOkNoPush(pushed, response) ==
    LET new_msg == Message("Assistant", response) IN
    [messages |-> pushed, ret |-> Ok(new_msg)]

\* the Ok arm of the match (chat.rs:143-150)
OnQueryOk(pushed, response) ==
    LET new_msg == Message("Assistant", response) IN
    [messages |-> Append(pushed, new_msg), ret |-> Ok(new_msg)]

\* mutant: the error is propagated without popping the user message
OnQueryErrNoPop(pushed, e) ==
    [messages |-> pushed, ret |-> e]

\* the Err arm of the match (chat.rs:151-154): Vec::pop, then the error
OnQueryErr(pushed, e) ==
    [messages |-> SubSeq(pushed, 1, Len(pushed) - 1), ret |-> e]

\* the User branch of send_message after the tree was read (chat.rs:139-155)
SendUserMessage(msgs, max, message, outcome) ==
    LET t == trim_messages_to_token_limit(msgs, max)
        pushed == Append(t.messages, message)
        q == query_model(outcome)
        r == IF outcome = Dropped
             THEN [messages |-> pushed, ret |-> NoReturn("future dropped at the await")]
             ELSE IF q.ok THEN OnQueryOk(pushed, q.value) ELSE OnQueryErr(pushed, q)
    IN  Observed("send_message", msgs, message, r.messages, r.ret,
                 <<t.messages>>, t.removals, <<pushed>>, <<outcome>>,
                 <<"get_tree", "query_model">>)

\* mutant: the history is trimmed before the role is looked at
send_message_trim_first(msgs, max, message, tree, outcome) ==
    IF message.role = "User"
    THEN IF tree.ok
         THEN SendUserMessage(msgs, max, message, outcome)
         ELSE Observed("send_message", msgs, message, msgs, tree, <<>>, 0, <<>>, <<>>,
                       <<"get_tree">>)
    ELSE LET t == trim_messages_to_token_limit(msgs, max) IN
         Observed("send_message", msgs, message, t.messages,
                  Err("InvalidRole", "Can only send messages with user role"),
                  <<t.messages>>, t.removals, <<>>, <<>>, <<>>)

\* Chat::send_message (chat.rs:118-159)
send_message(msgs, max, message, tree, outcome) ==
    IF message.role = "User"
    THEN IF tree.ok
         THEN SendUserMessage(msgs, max, message, outcome)
         ELSE Observed("send_message", msgs, message, msgs, tree, <<>>, 0, <<>>, <<>>,
                       <<"get_tree">>)
    ELSE Observed("send_message", msgs, message, msgs,
                  Err("InvalidRole", "Can only send messages with user role"),
                  <<>>, 0, <<>>, <<>>, <<>>)

----------------------------------------------------------------------------
(* The session as a state machine *)

\* the messages a caller may pass to send_message
CallerMessages == {Message(r, <<Text(t)>>) : r \in Roles, t \in Texts}

NoCall == Observed("new", <<>>, <<>>, <<>>, Ok(<<>>), <<>>, 0, <<>>, <<>>, <<>>)

\* Chat::new (chat.rs:53-78): an empty history and the configured budget
Init ==
    /\ messages = <<>>
    /\ max_tokens \in 0..MaxBudget
    /\ last = NoCall
    /\ retry = NoRetry
    /\ files = [p \in FilePaths |-> Absent]

\* the streak of failed attempts of one User message, as the caller sees it
NextRetry(r, pre, message, ret) ==
    IF message.role # "User" \/ ret.ok \/ ~Returned(ret) THEN NoRetry
    ELSE IF r.fails > 0 /\ r.M = message
         THEN [r EXCEPT !.fails = r.fails + 1]
         ELSE [fails |-> 1, H |-> pre, M |-> message]

\* the outcomes a call reads: the file tree is read for a User message only
\* (chat.rs:119-120), the backend is queried only once the tree was read
\* (chat.rs:142); an outcome that is not read is not varied
TreesRead(message) ==
    IF message.role = "User" THEN TreeOutcomes ELSE {Ok(<<"tree">>)}
OutcomesRead(message, tree, outcomes) ==
    IF message.role = "User" /\ tree.ok THEN outcomes ELSE {Dropped}

\* a call of send_message by the caller
SendMessage ==
    /\ Len(messages) + 2 <= MaxHist
    /\ \E message \in CallerMessages :
       \E tree \in TreesRead(message) :
       \E outcome \in OutcomesRead(message, tree, QueryOutcomes) :
          LET o == send_message(messages, max_tokens, message, tree, outcome) IN
          /\ (~o.ret.ok /\ Returned(o.ret) /\ retry.M = message) => retry.fails < MaxRetries
          /\ messages' = o.messages
          /\ last' = [o EXCEPT !.streak = IF retry.fails > 0 /\ retry.M = message
                                           THEN retry ELSE NoRetry]
          /\ retry' = NextRetry(retry, messages, message, o.ret)
    /\ UNCHANGED <<max_tokens, files>>

Next == SendMessage

Spec == Init /\ [][Next]_vars

----------------------------------------------------------------------------
(* trim_messages_to_token_limit on its own, over every bounded history *)

\* longest history the trimming is applied to on its own
MaxTrimLen == 3

\* the messages a history holds
HistoryMessages == {Message(r, c) : r \in {"User", "Assistant"}, c \in ResponseContents}

RECURSIVE SeqsUpTo(_, _)
SeqsUpTo(S, n) ==
    IF n = 0 THEN {<<>>}
    ELSE LET shorter == SeqsUpTo(S, n - 1) IN
         shorter \cup {Append(h, m) : h \in {x \in shorter : Len(x) = n - 1}, m \in S}

InitTrim ==
    /\ messages \in SeqsUpTo(HistoryMessages, MaxTrimLen)
    /\ max_tokens \in 0..MaxBudget
    /\ last = NoCall
    /\ retry = NoRetry
    /\ files = [p \in FilePaths |-> Absent]

\* a call of trim_messages_to_token_limit (chat.rs:102-106)
TrimCall ==
    /\ last.op = "new"
    /\ LET t == trim_messages_to_token_limit(messages, max_tokens) IN
       /\ messages' = t.messages
       /\ last' = Observed("trim", messages, <<>>, t.messages, Ok(<<>>),
                           <<t.messages>>, t.removals, <<>>, <<>>, <<>>)
    /\ UNCHANGED <<max_tokens, retry, files>>

NextTrim == TrimCall

TrimSpec == InitTrim /\ [][NextTrim]_vars

----------------------------------------------------------------------------
(* The provider backends *)

\* most tool calls in one response of the model
MaxToolCalls == 2

\* what the HTTP layer answers a POST with: no connection, or a status and a
\* body that may fail to be read
HttpStatuses == {200, 201, 404, 500}
is_success(status) == status >= 200 /\ status <= 299

\* the strings a tool call carries as arguments, and what serde_json::from_str
\* makes of them (deepseek.rs:311-312)
ArgStrings == {"{\"path\":\"a.txt\"}", "{}", "{\"path\":"}
ParseArguments(a) ==
    CASE a = "{\"path\":\"a.txt\"}" -> Ok([NoFields EXCEPT !["path"] = JString("a.txt")])
      [] a = "{}" -> Ok(NoFields)
      [] OTHER -> Err("SyntaxError", a)

\* DeepSeekToolCall with its DeepSeekFunctionCall (deepseek.rs:62-74)
DeepSeekToolCalls ==
    [id : {"t1", "t2"}, call_type : {"function", "builtin"},
     name : {"read_file"}, arguments : ArgStrings]

\* the "content" of a message on the wire: a string, null or an array of items
WireString(t) == [wire |-> "string", text |-> t]
WireNull == [wire |-> "null"]
WireArray(v) == [wire |-> "array", items |-> v]
WireContents == {WireString(<<"a">>), WireNull, WireArray(<<Text(<<"a">>), Text(<<>>)>>)}

\* deserialize_content (deepseek.rs:33-51)
deserialize_content(wrapper) ==
    CASE wrapper.wire = "string" -> <<Text(wrapper.text)>>
      [] wrapper.wire = "null" -> <<>>
      [] wrapper.wire = "array" -> wrapper.items

\* DeepSeekMessage, with tool_calls <<>> for None and <<calls>> for Some(calls)
\* (deepseek.rs:53-60)
DeepSeekMessages ==
    [role : {"assistant"}, content : WireContents,
     tool_calls : {<<>>} \cup {<<cs>> : cs \in SeqsUpTo(DeepSeekToolCalls, MaxToolCalls)}]

\* DeepSeekChoice (deepseek.rs:27-31)
Choice(m) == [finish_reason |-> "stop", message |-> m]
OtherChoice == Choice([role |-> "assistant", content |-> WireString(<<>>), tool_calls |-> <<>>])

\* the bodies of a response: no JSON, JSON that is no DeepSeekResponse, and
\* a DeepSeekResponse (deepseek.rs:20-25) with no, one or two choices
BodyText(t) == [body |-> "text", text |-> t]
BodyDoc(choices) == [body |-> "response", id |-> "r1", model |-> "m", choices |-> choices]
DeepSeekBodies ==
    {BodyText("<html>"), BodyText("{\"error\":{}}"), BodyDoc(<<>>)}
    \cup {BodyDoc(<<Choice(m)>>) : m \in DeepSeekMessages}
    \cup {BodyDoc(<<Choice(m), OtherChoice>>) : m \in {x \in DeepSeekMessages : x.tool_calls = <<>>}}

\* serde_json::from_str::<DeepSeekResponse> (deepseek.rs:296)
ParseDeepSeekResponse(body) ==
    IF body.body = "response" THEN Ok(body) ELSE Err("SyntaxError", body.text)

\* the outcomes of the POST: send() fails, or a status arrives and text()
\* fails or yields the body
SendFailed == [sent |-> FALSE]
Answer(status, read, body) == [sent |-> TRUE, status |-> status, read |-> read, body |-> body]
DeepSeekAnswers ==
    {SendFailed}
    \cup {Answer(st, FALSE, BodyText("")) : st \in HttpStatuses}
    \cup {Answer(st, TRUE, b) : st \in HttpStatuses \ {200}, b \in {BodyText("<html>"), BodyText("{\"error\":{}}"), BodyDoc(<<>>)}}
    \cup {Answer(200, TRUE, b) : b \in DeepSeekBodies}

\* the closure that flattens a message for the request (deepseek.rs:246-266):
\* the Text items joined by a space, every other item dropped
RECURSIVE TextsOf(_)
TextsOf(content) ==
    IF content = <<>> THEN <<>>
    ELSE (IF Head(content).type = "text" THEN <<Head(content).text>> ELSE <<>>)
         \o TextsOf(Tail(content))

DeepSeekWireMessage(msg) ==
    [role |-> CASE msg.role = "User" -> "user"
                [] msg.role = "Assistant" -> "assistant"
                [] msg.role = "System" -> "system"
                [] msg.role = "Developer" -> "developer",
     content |-> JoinWords(TextsOf(msg.content))]

\* the request's messages (deepseek.rs:239-266): the system message first
DeepSeekRequestMessages(msgs, system_message) ==
    LET all == IF system_message = <<>> THEN msgs
               ELSE <<Message("System", <<Text(system_message[1])>>)>> \o msgs
    IN  [i \in 1..Len(all) |-> DeepSeekWireMessage(all[i])]

\* mutant: the loop stops after the first tool call
RECURSIVE ToolCallItemsFirstOnly(_, _)
ToolCallItemsFirstOnly(calls, content) ==
    IF calls = <<>> THEN Ok(content)
    ELSE LET tool_call == Head(calls) IN
         IF tool_call.call_type = "function"
         THEN LET input == ParseArguments(tool_call.arguments) IN
              IF ~input.ok THEN Err("SerializationError", "Failed to parse tool arguments")
              ELSE Ok(Append(content, ToolUse(tool_call.id, tool_call.name, input.value)))
         ELSE ToolCallItemsFirstOnly(Tail(calls), content)

\* the loop over the tool calls (deepseek.rs:308-320)
RECURSIVE ToolCallItems(_, _)
ToolCallItems(calls, content) ==
    IF calls = <<>> THEN Ok(content)
    ELSE LET tool_call == Head(calls) IN
         IF tool_call.call_type = "function"
         THEN LET input == ParseArguments(tool_call.arguments) IN
              IF ~input.ok THEN Err("SerializationError", "Failed to parse tool arguments")
              ELSE ToolCallItems(Tail(calls),
                                 Append(content, ToolUse(tool_call.id, tool_call.name, input.value)))
         ELSE ToolCallItems(Tail(calls), content)

\* ModelResponse as query_model builds it (deepseek.rs:323-337)
ModelResponse(content, doc) ==
    [content |-> content, id |-> doc.id, model |-> doc.model,
     role |-> doc.choices[1].message.role, message_type |-> "text",
     stop_reason |-> doc.choices[1].finish_reason, stop_sequence |-> <<>>]

\* the mapping of a parsed response (deepseek.rs:299-338)
MapDeepSeekResponse(doc) ==
    IF doc.choices = <<>>
    THEN Err("InvalidResponse", "No choices in DeepSeek response")
    ELSE LET first_choice == doc.choices[1].message
             content == deserialize_content(first_choice.content)
             items == IF first_choice.tool_calls = <<>> THEN Ok(content)
                      ELSE ToolCallItems(first_choice.tool_calls[1], content)
         IN  IF items.ok THEN Ok(ModelResponse(items.value, doc)) ELSE items

Answered(ret, request, effects) == [ret |-> ret, request |-> request, effects |-> effects]

\* DeepSeekInference::query_model (deepseek.rs:234-338)
deepseek_query_model(api_key, msgs, system_message, answer) ==
    IF api_key = ""
    THEN Answered(Err("MissingApiKey", "DeepSeek API key not found"), <<>>, <<>>)
    ELSE LET request == <<DeepSeekRequestMessages(msgs, system_message)>> IN
         IF ~answer.sent
         THEN Answered(Err("NetworkError", "send"), request, <<"http_post">>)
         ELSE IF ~answer.read
         THEN Answered(Err("NetworkError", "text"), request, <<"http_post">>)
         ELSE IF ~is_success(answer.status)
         THEN Answered(Err("ApiError", <<answer.status, answer.body>>), request, <<"http_post">>)
         ELSE LET parsed == ParseDeepSeekResponse(answer.body) IN
              IF ~parsed.ok
              THEN Answered(Err("InvalidResponse", "Failed to parse DeepSeek response"),
                            request, <<"http_post">>)
              ELSE Answered(MapDeepSeekResponse(parsed.value), request, <<"http_post">>)

\* the bodies the Anthropic endpoint answers with: no JSON, an error object,
\* and an AnthropicResponse (inference.rs:7-18)
AnthropicDoc(content) == [body |-> "response", id |-> "r1", model |-> "m", content |-> content]
AnthropicAnswers ==
    {SendFailed}
    \cup {Answer(st, FALSE, BodyText("")) : st \in HttpStatuses}
    \cup {Answer(st, TRUE, b) : st \in HttpStatuses,
            b \in {BodyText("<html>"), BodyText("{\"error\":{}}")}
                  \cup {AnthropicDoc(c) : c \in ResponseContents}}

\* env::var("ANTHROPIC_API_KEY") (inference.rs:119): not set, or its value
EnvUnset == [set |-> FALSE]
EnvValue(v) == [set |-> TRUE, value |-> v]
EnvKeys == {EnvUnset, EnvValue(""), EnvValue("sk")}

\* Inference::query_anthropic (inference.rs:118-150): the key is expected in
\* the environment, the request is sent whatever the key, and the body is
\* decoded whatever the status; both failures are the transport library's
\* error, passed on with `?`
query_anthropic(env_key, msgs, system_message, answer) ==
    IF ~env_key.set
    THEN Answered(Panic("ANTHROPIC_API_KEY environment variable not set"), <<>>, <<>>)
    ELSE LET request == <<[messages |-> msgs,
                           system |-> IF system_message = <<>> THEN <<>>
                                      ELSE system_message[1]]>> IN
         IF ~answer.sent
         THEN Answered(Err("reqwest::Error", "send"), request, <<"http_post">>)
         ELSE IF ~answer.read \/ answer.body.body # "response"
         THEN Answered(Err("reqwest::Error", "decode"), request, <<"http_post">>)
         ELSE Answered(Ok(answer.body), request, <<"http_post">>)

\* the message lists and system messages the backends are queried with
BackendMessages ==
    {<<Message("User", <<Text(<<"a">>)>>)>>,
     <<Message("User", <<Text(<<"a">>)>>),
       Message("Assistant", <<Text(<<>>), ToolUse("t1", "read_file", NoFields)>>),
       Message("User", <<ToolResult("t1", <<"x">>)>>)>>}
SystemMessages == {<<>>, <<<<"system">>>>}

----------------------------------------------------------------------------
(* The tool dispatcher as a state machine *)

InitTools ==
    /\ messages = <<>>
    /\ max_tokens = MaxBudget
    /\ last = NoCall
    /\ retry = NoRetry
    /\ files \in [FilePaths -> FileContents \cup {Absent}]

\* a call of handle_tool_use by the caller; none follows a call that
\* panicked or never returned
HandleToolUse ==
    /\ Returned(last.ret)
    /\ \E item \in ToolItems, root \in GitRootOutcomes, spawn_ok \in BOOLEAN :
          LET d == handle_tool_use(files, item, root, spawn_ok) IN
          /\ files' = d.files
          /\ last' = [NoCall EXCEPT !.op = "handle_tool_use", !.arg = item,
                                    !.ret = d.ret, !.effects = d.effects,
                                    !.env = <<root, files, spawn_ok>>]
    /\ UNCHANGED <<messages, max_tokens, retry>>

NextTools == HandleToolUse

ToolSpec == InitTools /\ [][NextTools]_vars

----------------------------------------------------------------------------
(* The backends as a state machine *)

InitBackends ==
    /\ messages = <<>>
    /\ max_tokens = MaxBudget
    /\ last = NoCall
    /\ retry = NoRetry
    /\ files = [p \in FilePaths |-> Absent]

\* the state of the key a backend is queried with
KeyState(set, value) == IF ~set THEN "unset" ELSE IF value = "" THEN "empty" ELSE "set"

\* a query of the DeepSeek backend; a backend keeps no state between queries,
\* so a behaviour is one query
QueryDeepSeek ==
    /\ last = NoCall
    /\ \E api_key \in {"", "sk"}, msgs \in BackendMessages,
          system_message \in SystemMessages, answer \in DeepSeekAnswers :
          LET a == deepseek_query_model(api_key, msgs, system_message, answer) IN
          last' = [NoCall EXCEPT !.op = "deepseek", !.arg = msgs, !.ret = a.ret,
                                 !.sent = a.request, !.effects = a.effects,
                                 !.env = <<KeyState(TRUE, api_key), answer>>]
    /\ UNCHANGED <<messages, max_tokens, retry, files>>

\* a query of the Anthropic backend
QueryAnthropic ==
    /\ last = NoCall
    /\ \E env_key \in EnvKeys, msgs \in BackendMessages,
          system_message \in SystemMessages, answer \in AnthropicAnswers :
          LET a == query_anthropic(env_key, msgs, system_message, answer) IN
          last' = [NoCall EXCEPT !.op = "anthropic", !.arg = msgs, !.ret = a.ret,
                                 !.sent = a.request, !.effects = a.effects,
                                 !.env = <<IF env_key.set THEN KeyState(TRUE, env_key.value)
                                           ELSE KeyState(FALSE, ""), answer>>]
    /\ UNCHANGED <<messages, max_tokens, retry, files>>

NextBackends == QueryDeepSeek \/ QueryAnthropic

BackendSpec == InitBackends /\ [][NextBackends]_vars

----------------------------------------------------------------------------
(* The session with tool calls as a state machine *)

\* largest token budget of a session with tool calls
MaxPairBudget == 8

ToolUseIds == {"t1", "t2"}

\* the ids of the ToolUse items of the Assistant messages of a history
RECURSIVE IdsInHistory(_)
IdsInHistory(msgs) ==
    IF msgs = <<>> THEN {}
    ELSE (IF Head(msgs).role = "Assistant"
          THEN {Head(msgs).content[k].id :
                    k \in {n \in 1..Len(Head(msgs).content) :
                              Head(msgs).content[n].type = "tool_use"}}
          ELSE {})
         \cup IdsInHistory(Tail(msgs))

\* the User messages of a caller that answers a tool call only with the id of
\* a ToolUse the history holds
PairedCallerMessages(msgs) ==
    {Message("User", <<Text(<<>>)>>)}
    \cup {Message("User", <<ToolResult(i, <<"x">>)>>) : i \in IdsInHistory(msgs)}

\* the answers of a backend that may call a tool
PairedOutcomes ==
    {Ok(<<Text(<<>>)>>), Err("NetworkError", "backend"), Dropped}
    \cup {Ok(<<ToolUse(i, "read_file", NoFields)>>) : i \in ToolUseIds}

\* Chat::new (chat.rs:53-78)
InitPairs ==
    /\ messages = <<>>
    /\ max_tokens \in 0..MaxPairBudget
    /\ last = NoCall
    /\ retry = NoRetry
    /\ files = [p \in FilePaths |-> Absent]

\* a call of send_message by the caller
SendPaired ==
    /\ Len(messages) + 2 <= MaxHist
    /\ \E message \in PairedCallerMessages(messages) :
       \E tree \in TreesRead(message) :
       \E outcome \in OutcomesRead(message, tree, PairedOutcomes) :
          LET o == send_message(messages, max_tokens, message, tree, outcome) IN
          /\ (~o.ret.ok /\ Returned(o.ret) /\ retry.M = message) => retry.fails < MaxRetries
          /\ messages' = o.messages
          /\ last' = [o EXCEPT !.streak = IF retry.fails > 0 /\ retry.M = message
                                           THEN retry ELSE NoRetry]
          /\ retry' = NextRetry(retry, messages, message, o.ret)
    /\ UNCHANGED <<max_tokens, files>>

NextPairs == SendPaired

PairSpec == InitPairs /\ [][NextPairs]_vars

----------------------------------------------------------------------------
(* Properties of send_message *)

Sent == last.op = "send_message"
SentUser == Sent /\ last.arg.role = "User"

RECURSIVE Count(_, _)
Count(m, msgs) ==
    IF msgs = <<>> THEN 0
    ELSE (IF Head(msgs) = m THEN 1 ELSE 0) + Count(m, Tail(msgs))

\* C1 (as claimed): whenever send_message of a User message returns an
\* error, the history is element for element what it was before the call.
C1_RollbackInvariant ==
    (SentUser /\ ~last.ret.ok /\ Returned(last.ret)) => messages = last.pre

\* C2 (as claimed): the message list handed to query_model has an estimated
\* token total of at most max_tokens.
C2_SentWithinBudget ==
    (Sent /\ last.sent # <<>>) => calculate_total_tokens(last.sent[1]) <= max_tokens

\* C3: trimming stops after at most len(history) removals, and then the
\* remaining history is within the budget or empty.
C3_TrimTerminates ==
    last.op = "trim" =>
        /\ last.removals <= Len(last.pre)
        /\ Len(messages) = Len(last.pre) - last.removals
        /\ (calculate_total_tokens(messages) <= max_tokens \/ messages = <<>>)

\* a history of three messages trimmed by two removals, one message kept
C3_Witness ==
    /\ last.op = "trim"
    /\ Len(last.pre) = 3
    /\ last.removals = 2
    /\ messages # <<>>

\* C4: trimming leaves a contiguous suffix of the history, the survivors
\* unchanged and in order, and removes nothing from a history already
\* within the budget.
C4_TrimKeepsSuffix ==
    last.op = "trim" =>
        /\ \E k \in 0..Len(last.pre) : messages = SubSeq(last.pre, k + 1, Len(last.pre))
        /\ (calculate_total_tokens(last.pre) <= max_tokens => messages = last.pre)

\* the oldest message evicted, a newer and different one kept
C4_Witness ==
    /\ last.op = "trim"
    /\ last.removals >= 1
    /\ messages # <<>>
    /\ last.pre[1] # messages[1]

\* C5: on a history within the budget, a User message whose query succeeds
\* with content C returns Assistant(C) and leaves H, M, Assistant(C).
C5_SuccessfulTurn ==
    (SentUser /\ last.ret.ok /\ calculate_total_tokens(last.pre) <= max_tokens) =>
        /\ last.reply # <<>> /\ last.reply[1].ok
        /\ last.ret.value = Message("Assistant", last.reply[1].value)
        /\ messages = last.pre \o <<last.arg, last.ret.value>>

\* a successful turn on a non-empty history within the budget
C5_Witness ==
    /\ SentUser /\ last.ret.ok
    /\ last.pre # <<>>
    /\ calculate_total_tokens(last.pre) <= max_tokens
    /\ last.ret.value.content # <<>>

\* a send that succeeded after one or more failed attempts of the same message
RetrySucceeded == SentUser /\ last.ret.ok /\ last.streak.fails > 0

\* C6 (as claimed): after failed attempts and a successful retry of M the
\* history holds M exactly once more than the history H before the first
\* attempt did, and ends with M and the reply.
C6_RetryOnceMoreThanH ==
    RetrySucceeded =>
        /\ Count(last.arg, messages) = Count(last.arg, last.streak.H) + 1
        /\ Len(messages) >= 2
        /\ SubSeq(messages, Len(messages) - 1, Len(messages)) = <<last.arg, last.ret.value>>

\* C6 (amended): after failed attempts and a successful retry of M the
\* history is the trimmed H followed by M and the reply, so it holds M
\* exactly once more than the trimmed H does.
C6_RetryIdempotent ==
    RetrySucceeded =>
        LET kept == trim_messages_to_token_limit(last.streak.H, max_tokens).messages IN
        /\ messages = kept \o <<last.arg, last.ret.value>>
        /\ Count(last.arg, messages) = Count(last.arg, kept) + 1

\* two failed attempts, then a success, on a history that already holds M
C6_Witness ==
    /\ RetrySucceeded
    /\ last.streak.fails = 2
    /\ Count(last.arg, last.streak.H) = 1
    /\ Count(last.arg, messages) = 2

\* C7: a message whose role is not User is refused with an error: no file
\* tree read, no backend query, no trimming, the history untouched.
C7_InvalidRole ==
    (Sent /\ last.arg.role # "User") =>
        /\ ~last.ret.ok /\ last.ret.kind = "InvalidRole"
        /\ last.effects = <<>>
        /\ last.sent = <<>>
        /\ last.trimmed = <<>> /\ last.removals = 0
        /\ messages = last.pre

\* a non-User message sent on a history that exceeds the budget
C7_Witness ==
    /\ Sent /\ last.arg.role = "Assistant"
    /\ calculate_total_tokens(last.pre) > max_tokens
    /\ ~last.ret.ok

\* the history is a sequence of complete turns
CompleteTurns(msgs) ==
    /\ Len(msgs) % 2 = 0
    /\ \A i \in 1..Len(msgs) : msgs[i].role = (IF i % 2 = 1 THEN "User" ELSE "Assistant")

\* C8 (as claimed): between calls the history has even length and alternates
\* User, Assistant, starting with a User message.
C8_OnlyCompleteTurns == CompleteTurns(messages)

----------------------------------------------------------------------------
(* Properties of handle_tool_use *)

ToolCalled == last.op = "handle_tool_use" /\ last.arg.type = "tool_use"
GitRoot == last.env[1]
FilesBefore == last.env[2]

\* the fields each tool requires, in the order the handler extracts them
RequiredFields(name) ==
    CASE name = "write_file" -> <<"content", "path">>
      [] name = "read_file" -> <<"path">>
      [] name = "compile_check" -> <<"cmd">>
      [] name = "execute" -> <<"statement">>
      [] OTHER -> <<>>

BadFields(item) ==
    {f \in {RequiredFields(item.name)[i] : i \in 1..Len(RequiredFields(item.name))} :
        item.input[f].json # "string"}

\* a tool call whose input lacks a required field or holds a non-string there
Malformed == ToolCalled /\ last.arg.name \in ToolNames /\ BadFields(last.arg) # {}

\* the call wrote no file and ran no command
NoSideEffect ==
    /\ \A i \in 1..Len(last.effects) : last.effects[i] \notin {"fs_write", "spawn"}
    /\ files = FilesBefore

\* the call returned an error that names a required field and what is wrong
\* with it
NamesBadField ==
    /\ ~last.ret.ok
    /\ last.ret.kind \in {"MissingField", "WrongFieldType"}
    /\ last.ret.detail \in BadFields(last.arg)
    /\ (last.ret.kind = "MissingField") = (last.arg.input[last.ret.detail].json = "absent")

\* C9 (as claimed): a malformed call of one of the four tools returns an
\* error naming the field, without a panic, a textual result, a file write
\* or a command execution.
C9_FieldErrorAlways == Malformed => (NamesBadField /\ NoSideEffect)

\* C9 (amended): a malformed call of one of the four tools returns an error,
\* never a panic or a textual result, and writes and executes nothing; the
\* error names the field when the git root is found and is the git root
\* error otherwise.
C9_FieldValidation ==
    Malformed =>
        /\ NoSideEffect
        /\ ~last.ret.ok /\ Returned(last.ret)
        /\ (GitRoot.ok => NamesBadField)
        /\ (~GitRoot.ok => last.ret.kind = "GitRootError")

\* write_file with a content but a path that is not a string, in a git
\* repository
C9_Witness ==
    /\ Malformed /\ GitRoot.ok
    /\ last.arg.name = "write_file"
    /\ last.arg.input["content"].json = "string"
    /\ last.arg.input["path"].json = "null"
    /\ last.ret.kind = "WrongFieldType" /\ last.ret.detail = "path"

UnknownCalled == ToolCalled /\ last.arg.name \notin ToolNames

\* C10 (as claimed): an unknown tool name returns Ok("Unknown tool: <name>")
\* for every input and in every environment, writing and executing nothing.
C10_UnknownAlwaysOk ==
    UnknownCalled =>
        /\ last.ret = Ok(<<"Unknown", "tool:", last.arg.name>>)
        /\ NoSideEffect

\* C10 (amended): an unknown tool name writes and executes nothing, and
\* returns Ok("Unknown tool: <name>") for every input when the git root is
\* found, the git root error otherwise.
C10_UnknownTool ==
    UnknownCalled =>
        /\ NoSideEffect
        /\ (GitRoot.ok => last.ret = Ok(<<"Unknown", "tool:", last.arg.name>>))
        /\ (~GitRoot.ok => ~last.ret.ok /\ last.ret.kind = "GitRootError")

\* an unknown tool called with a path and a content, in a git repository
C10_Witness ==
    /\ UnknownCalled /\ GitRoot.ok
    /\ last.arg.input["path"].json = "string"
    /\ last.arg.input["content"].json = "string"
    /\ last.ret.ok

SpawnOk == last.env[3]

\* a call of one of the four tools whose required fields are all strings
WellFormed == ToolCalled /\ last.arg.name \in ToolNames /\ BadFields(last.arg) = {}

StringField(f) == last.arg.input[f].s

\* the tool's operation was attempted and failed: the file is not there or
\* is a directory, bash could not be started, or the statement ended with a
\* nonzero exit code
OperationFailed ==
    /\ WellFormed /\ GitRoot.ok
    /\ CASE last.arg.name = "read_file" ->
                IF StringField("path") \in FilePaths
                THEN FilesBefore[StringField("path")] = Absent ELSE TRUE
         [] last.arg.name = "write_file" -> StringField("path") \notin FilePaths
         [] last.arg.name = "execute" ->
                IF SpawnOk
                THEN TerminatesAlone(StringField("statement"))
                     /\ ~RunScript(StringField("statement")).holder
                     /\ ExitCode(StringField("statement")) # 0
                ELSE TRUE
         [] OTHER -> ~SpawnOk

StartsWith(text, prefix) ==
    Len(text) >= Len(prefix) /\ SubSeq(text, 1, Len(prefix)) = prefix

\* C11 (as claimed): when the operation of a well-formed tool call fails, the
\* call returns Ok with a text, never an error or a panic: "Error reading
\* file" for a failed read, "Error writing to file" for a failed write, the
\* captured stdout and stderr for a statement that ends with a nonzero code.
C11_FailuresAreContent ==
    OperationFailed =>
        /\ last.ret.ok
        /\ (last.arg.name = "read_file" =>
                StartsWith(last.ret.value, <<"Error", "reading", "file">>))
        /\ (last.arg.name = "write_file" =>
                StartsWith(last.ret.value, <<"Error", "writing", "to", "file">>))
        /\ (last.arg.name = "execute" =>
                last.ret.value = <<"Stdout:">> \o Stdout(StringField("statement"))
                                 \o <<"Stderr:">> \o Stderr(StringField("statement")))

\* C14 (as claimed): compile_check comes back for every cmd, once bash was
\* started: the launched process is terminated and the capture completes.
C14_CompileCheckReturns ==
    (WellFormed /\ last.arg.name = "compile_check" /\ GitRoot.ok /\ SpawnOk) =>
        last.ret.ok

----------------------------------------------------------------------------
(* Properties of the backends *)

BackendQueried == last.op \in {"deepseek", "anthropic"}
KeyOf == last.env[1]
AnswerOf == last.env[2]
FailedWith(kind) == IF last.ret.ok THEN FALSE ELSE last.ret.kind = kind
BodyRead == IF AnswerOf.sent THEN AnswerOf.read ELSE FALSE
Unparseable == AnswerOf.body.body # "response"
NoChoices ==
    IF AnswerOf.body.body = "response" /\ "choices" \in DOMAIN AnswerOf.body
    THEN AnswerOf.body.choices = <<>> ELSE FALSE

\* C12 (as claimed): whichever backend is queried with its key present, a
\* request that cannot be sent and a body that cannot be read are a
\* NetworkError, a status outside 2xx is an ApiError carrying the status and
\* the body, and a 2xx body that does not parse or has no choices is an
\* InvalidResponse.
C12_FailureClassification ==
    (BackendQueried /\ KeyOf = "set") =>
        /\ ~AnswerOf.sent => FailedWith("NetworkError")
        /\ (AnswerOf.sent /\ ~BodyRead) => FailedWith("NetworkError")
        /\ (BodyRead /\ ~is_success(AnswerOf.status)) =>
              /\ FailedWith("ApiError")
              /\ last.ret.detail = <<AnswerOf.status, AnswerOf.body>>
        /\ (BodyRead /\ is_success(AnswerOf.status) /\ (Unparseable \/ NoChoices)) =>
              FailedWith("InvalidResponse")

\* C13 (as claimed): whichever backend is queried with its key absent or
\* empty, the query fails with MissingApiKey and no HTTP request is issued.
C13_MissingKeyFailsFast ==
    (BackendQueried /\ KeyOf \in {"unset", "empty"}) =>
        /\ FailedWith("MissingApiKey")
        /\ last.effects = <<>>

\* a DeepSeek query whose response parsed and has a choice
DeepSeekMapped ==
    /\ last.op = "deepseek"
    /\ KeyOf = "set"
    /\ BodyRead
    /\ is_success(AnswerOf.status)
    /\ ~Unparseable
    /\ ~NoChoices
FirstMessage == AnswerOf.body.choices[1].message
Calls == IF FirstMessage.tool_calls = <<>> THEN <<>> ELSE FirstMessage.tool_calls[1]
IsFunction(c) == c.call_type = "function"
FunctionCalls == SelectSeq(Calls, IsFunction)
WireItems ==
    IF FirstMessage.content.wire = "string" THEN <<Text(FirstMessage.content.text)>>
    ELSE IF FirstMessage.content.wire = "null" THEN <<>>
    ELSE FirstMessage.content.items
ToolUsesOf(cs) ==
    [i \in 1..Len(cs) |-> ToolUse(cs[i].id, cs[i].name, ParseArguments(cs[i].arguments).value)]
MappedFrom(cs) ==
    IF \E i \in 1..Len(cs) : ~ParseArguments(cs[i].arguments).ok
    THEN FailedWith("SerializationError")
    ELSE /\ last.ret.ok
         /\ last.ret.value.content = WireItems \o ToolUsesOf(cs)

\* C16 (as claimed): the content of the response is the first choice's
\* content items followed by one ToolUse per tool call, in order, and the
\* query fails with SerializationError if any tool call's arguments do not
\* parse.
C16_EveryToolCall == DeepSeekMapped => MappedFrom(Calls)

\* C16 (amended): the content of the response is the first choice's content
\* items followed by one ToolUse per tool call of type "function", in order;
\* tool calls of another type are skipped unparsed; the query fails with
\* SerializationError if the arguments of a tool call of type "function" do
\* not parse.
C16_FunctionToolCalls == DeepSeekMapped => MappedFrom(FunctionCalls)

C16_Witness ==
    /\ DeepSeekMapped
    /\ Len(Calls) = 2
    /\ Calls[1].call_type = "builtin"
    /\ ~ParseArguments(Calls[1].arguments).ok
    /\ Calls[2].call_type = "function"
    /\ FirstMessage.content.wire = "string"
    /\ last.ret.ok
    /\ Len(last.ret.value.content) = 2

----------------------------------------------------------------------------
(* Properties of a session with tool calls *)

\* the ToolResult at item k of message i of a list answers a ToolUse of an
\* earlier Assistant message of the list
Paired(list, i, k) ==
    \E j \in 1..(i - 1) :
        /\ list[j].role = "Assistant"
        /\ \E n \in 1..Len(list[j].content) :
              /\ list[j].content[n].type = "tool_use"
              /\ list[j].content[n].id = list[i].content[k].tool_use_id

AllPaired(list) ==
    \A i \in 1..Len(list) : \A k \in 1..Len(list[i].content) :
        list[i].content[k].type = "tool_result" => Paired(list, i, k)

\* C15 (as claimed): with a caller that sends a ToolResult only for the id of
\* a ToolUse in an Assistant message of the history, every ToolResult of every
\* list passed to the backend answers a ToolUse of an earlier Assistant
\* message of that list.
C15_PairingSurvivesTrimming ==
    (Sent /\ last.sent # <<>>) => AllPaired(last.sent[1])

====
